---------------------------- MODULE Spec2Model ----------------------------
(***************************************************************************)
(* State-machine model of the sample HTTP transaction handlers of          *)
(* proxygen/httpserver/samples/hq/SampleHandlers.h.                        *)
(*                                                                         *)
(*   Spec      RandBytesGenHandler: one handler, one transaction.  The     *)
(*             transport delivers onHeadersComplete, onBody, onEOM,        *)
(*             onError, onEgressPaused, onEgressResumed and                *)
(*             detachTransaction from one event-base thread.               *)
(*             sendBodyInChunks is split at its loop head, because         *)
(*             txn_->sendBody may deliver onEgressPaused re-entrantly      *)
(*             between two chunks.                                         *)
(*   FairSpec  Spec with the fairness of a running event-base thread.      *)
(*   WaitSpec  WaitReleaseHandler: the handlers of one event base, the     *)
(*             registry of waiting handlers with its mutex, and threads    *)
(*             that call release(id).  onHeadersComplete, maybeCleanup,    *)
(*             the registry and the release(id) entry point are defined    *)
(*             outside the header; they follow the design document.        *)
(***************************************************************************)
EXTENDS Integers, Sequences, FiniteSets, TLC

(***************************************************************************)
(* Bounds of the model.                                                    *)
(***************************************************************************)
\* onBody callbacks the peer delivers for one request
MaxBody == 1
\* release(id) calls issued in one run
MaxReleases == 2

\* the most headers a request of the model carries
MaxHeaders == 2

\* the most body chunks delivered to an EchoHandler
MaxEchoBody == 2

(***************************************************************************)
(* Program constants.                                                      *)
(***************************************************************************)
\* const uint64_t kMaxAllowedLength{10 * 1024 * 1024}
kMaxAllowedLength == 10485760
\* const uint64_t kMaxChunkSize{100 * 1024}
kMaxChunkSize == 102400

Min(a, b) == IF a <= b THEN a ELSE b

(***************************************************************************)
(* Request inputs.  A path is the sequence of its characters.  Lengths are *)
(* kept below 2^31 (TLC's integers); folly::to's overflow error for more   *)
(* than 20 digits is outside this input set.                               *)
(***************************************************************************)
Paths ==
  { <<"/", "0">>,
    <<"/", "1">>,
    <<"/", "1", "0">>,
    <<"/", "1", "0", "2", "3", "9", "9">>,
    <<"/", "1", "0", "2", "4", "0", "0">>,
    <<"/", "1", "0", "2", "4", "0", "1">>,
    <<"/", "2", "5", "0", "0", "0", "0">>,
    <<"/", "1", "0", "4", "8", "5", "7", "6", "0">>,
    <<"/", "1", "0", "4", "8", "5", "7", "6", "1">>,
    <<"/", "x">>,
    <<"/", "1", "2", "a">>,
    <<"/", "-", "5">> }

Methods == {"GET", "POST"}

\* respBodyLen_ has no initializer: what the field holds before the first
\* assignment is indeterminate.
UninitValues == {0, 204805}

Digits == <<"0", "1", "2", "3", "4", "5", "6", "7", "8", "9">>

IsDigit(c) == \E k \in 1..10 : Digits[k] = c

DigitVal(c) == (CHOOSE k \in 1..10 : Digits[k] = c) - 1

RECURSIVE DigitsToInt(_, _)
DigitsToInt(s, acc) ==
  IF s = <<>> THEN acc
  ELSE DigitsToInt(Tail(s), acc * 10 + DigitVal(Head(s)))

\* folly::to<uint64_t>(str): a ConversionError for an empty string or any
\* character that is not a decimal digit (a sign included), the value otherwise.
ToUInt64(s) ==
  IF s = <<>> \/ \E k \in 1..Len(s) : ~IsDigit(s[k])
  THEN [ok |-> FALSE, val |-> 0]
  ELSE [ok |-> TRUE, val |-> DigitsToInt(s, 0)]

\* msg->getPath().substr(1)
Substr1(p) == Tail(p)

VARIABLES
  path,          \* msg->getPath()
  method,        \* msg->getMethod()
  stage,         \* "new": constructed; "headers": onHeadersComplete delivered;
                 \* "deleted": detachTransaction ran
  respBodyLen_,  \* uint64_t respBodyLen_
  paused_,       \* bool paused_
  eomSent_,      \* bool eomSent_
  pc,            \* "idle", or "loop": at the loop head of sendBodyInChunks
  iter,          \* sendBodyInChunks: uint64_t iter
  i,             \* sendBodyInChunks: uint64_t i
  nBody,         \* onBody callbacks delivered
  ingressEOM,    \* onEOM delivered
  handlerEgressPaused,  \* the transport's view: last notification was a pause
  txn            \* what the HTTPTransaction was told to send

\* the state of RandBytesGenHandler and its transaction
rvars == <<path, method, stage, respBodyLen_, paused_, eomSent_, pc, iter, i,
           nBody, ingressEOM, handlerEgressPaused, txn>>

VARIABLES
  wstage,          \* per handler: "new", "live" (headers complete), "deleted"
  id_,             \* per handler: uint32_t id_
  wingress,        \* per handler: "open", or "eom" (onEOM delivered)
  wtxn,            \* per handler: what its HTTPTransaction was told to send
  waitingHandlers, \* the registry: id -> handler
  mutex,           \* the registry mutex: "none" or the thread that holds it
  rpc,             \* per thread: its place in release(id)
  rid,             \* per thread: the id of its release(id) call
  rh,              \* per thread: the handler its lookup found
  nReleases,       \* release(id) calls issued
  uaf              \* a destroyed handler instance was used

\* the state of the WaitReleaseHandlers, the registry and the releasing threads
wvars == <<wstage, id_, wingress, wtxn, waitingHandlers, mutex, rpc, rid, rh,
           nReleases, uaf>>

VARIABLES
  ekind,        \* the handler class: "echo" (EchoHandler) or "continue"
                \* (ContinueHandler)
  ereq,         \* the request: its HTTP version and its headers, in order
  estage,       \* "new", "headers", "deleted"
  sendFooter_,  \* bool sendFooter_
  ein,          \* the body chunks onBody has delivered, in order
  eingressEOM,  \* onEOM was delivered
  etxn          \* what the HTTPTransaction was told to send, in order

evars == <<ekind, ereq, estage, sendFooter_, ein, eingressEOM, etxn>>

vars == <<rvars, wvars, evars>>

\* uint64_t subtraction.  A wrap is shown at TLC's integer width: like the
\* 64-bit one it yields a value far above every length of the model.
Sub64(a, b) == IF a >= b THEN a - b ELSE (2147483647 - (b - a)) + 1

(***************************************************************************)
(* The HTTPTransaction's egress, as the handler drives it.                 *)
(***************************************************************************)
NoTxn ==
  [status |-> 0, errBody |-> "none", genBytes |-> 0, genChunks |-> 0,
   shortChunks |-> 0, lastChunk |-> 0, eom |-> 0, abort |-> 0]

\* txn_->sendHeaders(resp) with resp.setStatusCode(code)
SendHeaders(t, code) == [t EXCEPT !.status = code]

\* txn_->sendBody(folly::IOBuf::copyBuffer(errorMsg))
SendErrorBody(t, msg) == [t EXCEPT !.errBody = msg]

\* txn_->sendBody(genRandBytes(chunkSize)): one chunk of n hex characters
SendBody(t, n) ==
  [t EXCEPT !.genBytes = @ + n,
            !.genChunks = @ + 1,
            !.shortChunks = @ + (IF n < kMaxChunkSize THEN 1 ELSE 0),
            !.lastChunk = n]

\* txn_->sendEOM()
SendEOM(t) == [t EXCEPT !.eom = @ + 1]

\* txn_->sendAbort()
SendAbort(t) == [t EXCEPT !.abort = @ + 1]

\* sendError(errorMsg): a 400 head, then the message as one body chunk
SendError(t, msg) == SendErrorBody(SendHeaders(t, 400), msg)

(***************************************************************************)
(* RandBytesGenHandler                                                     *)
(***************************************************************************)
\* genRandBytes(len): (len / 2) + 1 random bytes, hexlified to two characters
\* each, resized to len characters.
GenRandBytes(len) ==
  LET contentLength == (len \div 2) + 1
      hexLen == 2 * contentLength
  IN  [size |-> len, hexChars |-> Min(hexLen, len)]

\* uint64_t iter = respBodyLen_ / kMaxChunkSize; ++iter on a remainder
IterCount(r) ==
  (r \div kMaxChunkSize) + (IF r % kMaxChunkSize # 0 THEN 1 ELSE 0)

ChunkSizeNoMin(r) == kMaxChunkSize

ChunkSizeNoCap(r) == r

\* uint64_t chunkSize = std::fmin(kMaxChunkSize, respBodyLen_)
ChunkSize(r) == Min(kMaxChunkSize, r)

LoopCondNoPause == i < iter

LoopCondOffByOne == i <= iter /\ ~paused_

\* the loop condition: i < iter && !paused_
LoopCond == i < iter /\ ~paused_

EomCondNoGuard == ~paused_ /\ respBodyLen_ = 0

\* if (!paused_ && !eomSent_ && respBodyLen_ == 0)
EomCond == ~paused_ /\ ~eomSent_ /\ respBodyLen_ = 0

OversizeOffByOne(len) == len >= kMaxAllowedLength

\* if (respBodyLen_ > kMaxAllowedLength)
Oversize(len) == len > kMaxAllowedLength

\* entry of sendBodyInChunks() with respBodyLen_ = r: iter is computed once
EnterSendBodyInChunks(r) ==
  /\ pc' = "loop"
  /\ iter' = IterCount(r)
  /\ i' = 0

Aborted == txn.abort > 0

\* the transport invokes the next callback: the handler is attached, not
\* inside a callback, and the transaction was not aborted
CanDeliver == stage = "headers" /\ pc = "idle" /\ ~Aborted

OnHeadersComplete ==
  /\ stage = "new"
  /\ stage' = "headers"
  /\ LET parsed == ToUInt64(Substr1(path)) IN
       IF ~parsed.ok
       THEN /\ txn' = SendError(txn, "InvalidURL")
            /\ UNCHANGED <<respBodyLen_, pc, iter, i>>
       ELSE /\ respBodyLen_' = parsed.val
            /\ IF Oversize(parsed.val)
               THEN /\ txn' = SendError(txn, "kErrorMsg")
                    /\ UNCHANGED <<pc, iter, i>>
               ELSE /\ txn' = SendHeaders(txn, 200)
                    /\ IF method = "GET"
                       THEN EnterSendBodyInChunks(parsed.val)
                       ELSE UNCHANGED <<pc, iter, i>>
  /\ UNCHANGED <<path, method, paused_, eomSent_, nBody, ingressEOM,
                 handlerEgressPaused>>
  /\ UNCHANGED wvars
  /\ UNCHANGED evars

\* one iteration of the loop of sendBodyInChunks
LoopIter ==
  /\ pc = "loop"
  /\ LoopCond
  /\ LET chunkSize == ChunkSize(respBodyLen_) IN
       /\ txn' = SendBody(txn, GenRandBytes(chunkSize).size)
       /\ respBodyLen_' = Sub64(respBodyLen_, chunkSize)
  /\ i' = i + 1
  /\ UNCHANGED <<path, method, stage, paused_, eomSent_, pc, iter, nBody,
                 ingressEOM, handlerEgressPaused>>
  /\ UNCHANGED wvars
  /\ UNCHANGED evars

\* the loop ends; the end-of-message check; sendBodyInChunks returns
LoopExit ==
  /\ pc = "loop"
  /\ ~LoopCond
  /\ IF EomCond
     THEN /\ txn' = SendEOM(txn)
          /\ eomSent_' = TRUE
     ELSE UNCHANGED <<txn, eomSent_>>
  /\ pc' = "idle"
  /\ iter' = 0
  /\ i' = 0
  /\ UNCHANGED <<path, method, stage, respBodyLen_, paused_, nBody,
                 ingressEOM, handlerEgressPaused>>
  /\ UNCHANGED wvars
  /\ UNCHANGED evars

OnBody ==
  /\ CanDeliver
  /\ ~ingressEOM
  /\ nBody < MaxBody
  /\ nBody' = nBody + 1
  /\ EnterSendBodyInChunks(respBodyLen_)
  /\ UNCHANGED <<path, method, stage, respBodyLen_, paused_, eomSent_,
                 ingressEOM, handlerEgressPaused, txn>>
  /\ UNCHANGED wvars
  /\ UNCHANGED evars

OnEOM ==
  /\ CanDeliver
  /\ ~ingressEOM
  /\ ingressEOM' = TRUE
  /\ UNCHANGED <<path, method, stage, respBodyLen_, paused_, eomSent_, pc,
                 iter, i, nBody, handlerEgressPaused, txn>>
  /\ UNCHANGED wvars
  /\ UNCHANGED evars

OnError ==
  /\ CanDeliver
  /\ txn' = SendAbort(txn)
  /\ UNCHANGED <<path, method, stage, respBodyLen_, paused_, eomSent_, pc,
                 iter, i, nBody, ingressEOM, handlerEgressPaused>>
  /\ UNCHANGED wvars
  /\ UNCHANGED evars

\* Delivered between two callbacks, or re-entrantly from txn_->sendBody inside
\* the loop (then at least one chunk of this invocation was sent: i > 0).
OnEgressPaused ==
  /\ stage = "headers"
  /\ ~Aborted
  /\ pc = "idle" \/ (pc = "loop" /\ i > 0)
  /\ paused_' = TRUE
  /\ handlerEgressPaused' = TRUE
  /\ UNCHANGED <<path, method, stage, respBodyLen_, eomSent_, pc, iter, i,
                 nBody, ingressEOM, txn>>
  /\ UNCHANGED wvars
  /\ UNCHANGED evars

OnEgressResumedNoSend ==
  /\ CanDeliver
  /\ paused_' = FALSE
  /\ handlerEgressPaused' = FALSE
  /\ UNCHANGED <<path, method, stage, respBodyLen_, eomSent_, pc, iter, i,
                 nBody, ingressEOM, txn>>
  /\ UNCHANGED wvars
  /\ UNCHANGED evars

OnEgressResumed ==
  /\ CanDeliver
  /\ paused_' = FALSE
  /\ handlerEgressPaused' = FALSE
  /\ EnterSendBodyInChunks(respBodyLen_)
  /\ UNCHANGED <<path, method, stage, respBodyLen_, eomSent_, nBody,
                 ingressEOM, txn>>
  /\ UNCHANGED wvars
  /\ UNCHANGED evars

\* detachTransaction(): delete this.  The transport detaches once the
\* transaction is aborted, or both directions are complete.
DetachTransaction ==
  /\ stage = "headers"
  /\ pc = "idle"
  /\ Aborted \/ (ingressEOM /\ txn.eom > 0)
  /\ stage' = "deleted"
  /\ UNCHANGED <<path, method, respBodyLen_, paused_, eomSent_, pc, iter, i,
                 nBody, ingressEOM, handlerEgressPaused, txn>>
  /\ UNCHANGED wvars
  /\ UNCHANGED evars

(***************************************************************************)
(* WaitReleaseHandler and the registry of waiting handlers                 *)
(***************************************************************************)
Handlers == {"h1", "h2"}

\* request ids; 0 is a handler's id_ before onHeadersComplete
Ids == {1, 2}

\* "evb" is the event base that owns every transaction of the model; the
\* others are foreign threads
Threads == {"evb", "t1", "t2"}

NoHandler == "null"

NoThread == "none"

\* one command given to a transaction, and the thread that gave it
Cmd(c, by) == [cmd |-> c, by |-> by]

\* the commands c in a transaction's log
Count(log, c) == Cardinality({k \in 1..Len(log) : log[k].cmd = c})

\* sendOkResponse(body, eom): a 200 chunked head, the body, end-of-message
\* only if eom
SendOkResponse(log, body, eom, by) ==
  log \o <<Cmd("headers200chunked", by), Cmd(body, by)>>
      \o (IF eom THEN <<Cmd("EOM", by)>> ELSE <<>>)

RunThreadCaller(caller) == caller

\* evb_->runImmediatelyOrRunInEventBaseThreadAndWait(fn): fn runs on the
\* event-base thread, whichever thread calls
RunThread(caller) == "evb"

\* the function release() runs: txn_->sendBody("released\n"); txn_->sendEOM()
ReleaseFn(log, by) == log \o <<Cmd("released", by), Cmd("EOM", by)>>

LookupAny(reg, id) ==
  IF reg[id] # NoHandler \/ \A k \in Ids : reg[k] = NoHandler
  THEN reg[id]
  ELSE reg[CHOOSE k \in Ids : reg[k] # NoHandler]

\* waitingHandlers.find(id): the handler registered for id, or none
Lookup(reg, id) == reg[id]

\* waitingHandlers.erase(id)
Erase(reg, id) == [reg EXCEPT ![id] = NoHandler]

\* waitingHandlers.insert({id, handler})
Insert(reg, id, h) == [reg EXCEPT ![id] = h]

\* the event-base thread is between two callbacks
EvbFree == rpc["evb"] = "idle"

WaitAborted(h) == Count(wtxn[h], "abort") > 0

WaitEomSent(h) == Count(wtxn[h], "EOM") > 0

\* onHeadersComplete: register (id -> this) under the mutex, answer 200
\* chunked with no end-of-message.  No other handler is registered for id.
WaitOnHeadersComplete(h, id) ==
  /\ wstage[h] = "new"
  /\ EvbFree
  /\ mutex = NoThread
  /\ Lookup(waitingHandlers, id) = NoHandler
  /\ id_' = [id_ EXCEPT ![h] = id]
  /\ waitingHandlers' = Insert(waitingHandlers, id, h)
  /\ wtxn' = [wtxn EXCEPT ![h] = SendOkResponse(@, "waiting", FALSE, "evb")]
  /\ wstage' = [wstage EXCEPT ![h] = "live"]
  /\ UNCHANGED <<wingress, mutex, rpc, rid, rh, nReleases, uaf>>
  /\ UNCHANGED rvars
  /\ UNCHANGED evars

\* onBody: ignored
WaitOnBody(h) ==
  /\ wstage[h] = "live"
  /\ EvbFree
  /\ ~WaitAborted(h)
  /\ wingress[h] # "eom"
  /\ UNCHANGED wvars
  /\ UNCHANGED evars
  /\ UNCHANGED rvars
  /\ UNCHANGED evars

WaitOnEOMSendsEOM(h) ==
  /\ wstage[h] = "live"
  /\ EvbFree
  /\ ~WaitAborted(h)
  /\ wingress[h] # "eom"
  /\ wingress' = [wingress EXCEPT ![h] = "eom"]
  /\ wtxn' = [wtxn EXCEPT ![h] = Append(@, Cmd("EOM", "evb"))]
  /\ UNCHANGED <<wstage, id_, waitingHandlers, mutex, rpc, rid, rh,
                 nReleases, uaf>>
  /\ UNCHANGED rvars
  /\ UNCHANGED evars

\* onEOM: nothing to do, the response ends on release
WaitOnEOM(h) ==
  /\ wstage[h] = "live"
  /\ EvbFree
  /\ ~WaitAborted(h)
  /\ wingress[h] # "eom"
  /\ wingress' = [wingress EXCEPT ![h] = "eom"]
  /\ UNCHANGED <<wstage, id_, wtxn, waitingHandlers, mutex, rpc, rid, rh,
                 nReleases, uaf>>
  /\ UNCHANGED rvars
  /\ UNCHANGED evars

\* maybeCleanup(): remove this handler's entry under the mutex, if any
MaybeCleanup(reg, h) == Erase(reg, id_[h])

\* onError: maybeCleanup(); txn_->sendAbort()
WaitOnError(h) ==
  /\ wstage[h] = "live"
  /\ EvbFree
  /\ ~WaitAborted(h)
  /\ mutex = NoThread
  /\ waitingHandlers' = MaybeCleanup(waitingHandlers, h)
  /\ wtxn' = [wtxn EXCEPT ![h] = Append(@, Cmd("abort", "evb"))]
  /\ UNCHANGED <<wstage, id_, wingress, mutex, rpc, rid, rh, nReleases, uaf>>
  /\ UNCHANGED rvars
  /\ UNCHANGED evars

\* detachTransaction(): delete this, once the transaction is aborted or both
\* directions are complete
WaitDetachTransaction(h) ==
  /\ wstage[h] = "live"
  /\ EvbFree
  /\ WaitAborted(h) \/ (wingress[h] = "eom" /\ WaitEomSent(h))
  /\ wstage' = [wstage EXCEPT ![h] = "deleted"]
  /\ UNCHANGED <<id_, wingress, wtxn, waitingHandlers, mutex, rpc, rid, rh,
                 nReleases, uaf>>
  /\ UNCHANGED rvars
  /\ UNCHANGED evars

\* a thread calls release(id)
ReleaseCall(t, id) ==
  /\ rpc[t] = "idle"
  /\ nReleases < MaxReleases
  /\ nReleases' = nReleases + 1
  /\ rid' = [rid EXCEPT ![t] = id]
  /\ rpc' = [rpc EXCEPT ![t] = "lock"]
  /\ UNCHANGED <<wstage, id_, wingress, wtxn, waitingHandlers, mutex, rh, uaf>>
  /\ UNCHANGED rvars
  /\ UNCHANGED evars

\* release(id): acquire the mutex
ReleaseLock(t) ==
  /\ rpc[t] = "lock"
  /\ mutex = NoThread
  /\ mutex' = t
  /\ rpc' = [rpc EXCEPT ![t] = "locked"]
  /\ UNCHANGED <<wstage, id_, wingress, wtxn, waitingHandlers, rid, rh,
                 nReleases, uaf>>
  /\ UNCHANGED rvars
  /\ UNCHANGED evars

ReleaseLookupKeepsMutex(t) ==
  /\ rpc[t] = "locked"
  /\ LET found == waitingHandlers[rid[t]] IN
       /\ rh' = [rh EXCEPT ![t] = found]
       /\ rpc' = [rpc EXCEPT ![t] = IF found = NoHandler THEN "idle"
                                                          ELSE "handoff"]
       /\ rid' = [rid EXCEPT ![t] = IF found = NoHandler THEN 0 ELSE @]
       /\ mutex' = IF found = NoHandler THEN NoThread ELSE t
  /\ UNCHANGED <<wstage, id_, wingress, wtxn, waitingHandlers, nReleases, uaf>>
  /\ UNCHANGED rvars
  /\ UNCHANGED evars

\* release(id): look the handler up; absent: unlock and return; present:
\* unlock, and go on to complete it
ReleaseLookup(t) ==
  /\ rpc[t] = "locked"
  /\ LET found == Lookup(waitingHandlers, rid[t]) IN
       /\ rh' = [rh EXCEPT ![t] = found]
       /\ rpc' = [rpc EXCEPT ![t] = IF found = NoHandler THEN "idle"
                                                          ELSE "handoff"]
       /\ rid' = [rid EXCEPT ![t] = IF found = NoHandler THEN 0 ELSE @]
  /\ mutex' = NoThread
  /\ UNCHANGED <<wstage, id_, wingress, wtxn, waitingHandlers, nReleases, uaf>>
  /\ UNCHANGED rvars
  /\ UNCHANGED evars

\* handler->release(): the completion runs on the event base, at once if the
\* caller is that thread, between two callbacks otherwise, and the caller
\* waits for it.  A deleted handler is a dangling pointer: the writes may or
\* may not reach the transaction.
ReleaseRun(t) ==
  /\ rpc[t] = "handoff"
  /\ t = "evb" \/ EvbFree
  /\ LET h == rh[t] IN
       IF wstage[h] = "deleted"
       THEN /\ uaf' = TRUE
            /\ \/ wtxn' = [wtxn EXCEPT ![h] = ReleaseFn(@, RunThread(t))]
               \/ wtxn' = wtxn
       ELSE /\ wtxn' = [wtxn EXCEPT ![h] = ReleaseFn(@, RunThread(t))]
            /\ uaf' = uaf
  /\ rpc' = [rpc EXCEPT ![t] = "relock"]
  /\ UNCHANGED <<wstage, id_, wingress, waitingHandlers, mutex, rid, rh,
                 nReleases>>
  /\ UNCHANGED rvars
  /\ UNCHANGED evars

\* release(id), after the completion: acquire the mutex again
ReleaseRelock(t) ==
  /\ rpc[t] = "relock"
  /\ mutex = NoThread
  /\ mutex' = t
  /\ rpc' = [rpc EXCEPT ![t] = "erase"]
  /\ UNCHANGED <<wstage, id_, wingress, wtxn, waitingHandlers, rid, rh,
                 nReleases, uaf>>
  /\ UNCHANGED rvars
  /\ UNCHANGED evars

\* release(id): remove the entry, unlock, return
ReleaseErase(t) ==
  /\ rpc[t] = "erase"
  /\ waitingHandlers' = Erase(waitingHandlers, rid[t])
  /\ mutex' = NoThread
  /\ rpc' = [rpc EXCEPT ![t] = "idle"]
  /\ rh' = [rh EXCEPT ![t] = NoHandler]
  /\ rid' = [rid EXCEPT ![t] = 0]
  /\ UNCHANGED <<wstage, id_, wingress, wtxn, nReleases, uaf>>
  /\ UNCHANGED rvars
  /\ UNCHANGED evars

\* the handlers after construction, an empty registry, no release(id) call
WaitInit ==
  /\ wstage = [h \in Handlers |-> "new"]
  /\ id_ = [h \in Handlers |-> 0]
  /\ wingress = [h \in Handlers |-> "open"]
  /\ wtxn = [h \in Handlers |-> <<>>]
  /\ waitingHandlers = [k \in Ids |-> NoHandler]
  /\ mutex = NoThread
  /\ rpc = [t \in Threads |-> "idle"]
  /\ rid = [t \in Threads |-> 0]
  /\ rh = [t \in Threads |-> NoHandler]
  /\ nReleases = 0
  /\ uaf = FALSE

\* no wait/release request in this run
WaitNone ==
  /\ wstage = [h \in Handlers |-> "deleted"]
  /\ id_ = [h \in Handlers |-> 0]
  /\ wingress = [h \in Handlers |-> "open"]
  /\ wtxn = [h \in Handlers |-> <<>>]
  /\ waitingHandlers = [k \in Ids |-> NoHandler]
  /\ mutex = NoThread
  /\ rpc = [t \in Threads |-> "idle"]
  /\ rid = [t \in Threads |-> 0]
  /\ rh = [t \in Threads |-> NoHandler]
  /\ nReleases = MaxReleases
  /\ uaf = FALSE

WaitNext ==
  \/ \E h \in Handlers, id \in Ids : WaitOnHeadersComplete(h, id)
  \/ \E h \in Handlers : WaitOnBody(h)
  \/ \E h \in Handlers : WaitOnEOM(h)
  \/ \E h \in Handlers : WaitOnError(h)
  \/ \E h \in Handlers : WaitDetachTransaction(h)
  \/ \E t \in Threads, id \in Ids : ReleaseCall(t, id)
  \/ \E t \in Threads : ReleaseLock(t)
  \/ \E t \in Threads : ReleaseLookup(t)
  \/ \E t \in Threads : ReleaseRun(t)
  \/ \E t \in Threads : ReleaseRelock(t)
  \/ \E t \in Threads : ReleaseErase(t)

\* RandBytesGenHandler after construction, and its request
RandInit ==
  /\ path \in Paths
  /\ method \in Methods
  /\ stage = "new"
  /\ respBodyLen_ \in UninitValues
  /\ paused_ = FALSE
  /\ eomSent_ = FALSE
  /\ pc = "idle"
  /\ iter = 0
  /\ i = 0
  /\ nBody = 0
  /\ ingressEOM = FALSE
  /\ handlerEgressPaused = FALSE
  /\ txn = NoTxn

\* no RandBytesGenHandler request in this run
RandNone ==
  /\ path = <<"/", "0">>
  /\ method = "GET"
  /\ stage = "deleted"
  /\ respBodyLen_ = 0
  /\ paused_ = FALSE
  /\ eomSent_ = FALSE
  /\ pc = "idle"
  /\ iter = 0
  /\ i = 0
  /\ nBody = 0
  /\ ingressEOM = FALSE
  /\ handlerEgressPaused = FALSE
  /\ txn = NoTxn

(***************************************************************************)
(* EchoHandler and ContinueHandler                                         *)
(***************************************************************************)
\* header names are kept as the sequence of their parts, so that a prefixed
\* name differs from the name it was built from
HeaderNames == {<<"host">>, <<"expect">>, <<"connection">>}

HeaderValues == {"100-continue", "host"}

\* HTTP versions as (major, minor)
Versions == {<<0, 9>>, <<1, 0>>, <<1, 1>>}

kHTTPVersion09 == <<0, 9>>

\* the body chunks a peer sends
BodyChunks == {"a", "b"}

\* the buffer getH1QFooter() returns
H1QFooter == "footer"

Header(n, v) == [name |-> n, value |-> v]

\* the header lists of at most n entries
RECURSIVE HeaderLists(_)
HeaderLists(n) ==
  IF n = 0
  THEN {<<>>}
  ELSE LET shorter == HeaderLists(n - 1) IN
         shorter \cup {Append(hs, Header(k, v)) :
                         hs \in shorter, k \in HeaderNames, v \in HeaderValues}

\* calls on txn_
EHead(status, hdrs) ==
  [cmd |-> "headers", status |-> status, headers |-> hdrs, data |-> ""]

EBody(d) == [cmd |-> "body", status |-> 0, headers |-> <<>>, data |-> d]

EEom == [cmd |-> "EOM", status |-> 0, headers |-> <<>>, data |-> ""]

EAbort == [cmd |-> "abort", status |-> 0, headers |-> <<>>, data |-> ""]

ECount(log, c) == Cardinality({k \in 1..Len(log) : log[k].cmd = c})

EchoNameNoPrefix(k) == k

\* "x-echo-" + header
EchoName(k) == <<"x-echo-">> \o k

\* msg->getHeaders().forEach(...): resp.getHeaders().add("x-echo-" + header,
\* val) for every request header, in order
MirrorHeaders(hs) ==
  [k \in 1..Len(hs) |-> Header(EchoName(hs[k].name), hs[k].value)]

\* the names HTTP defines as hop-by-hop
PerHopNames ==
  {<<"connection">>, <<"keep-alive">>, <<"proxy-authenticate">>,
   <<"proxy-authorization">>, <<"proxy-connection">>, <<"te">>,
   <<"trailers">>, <<"transfer-encoding">>, <<"upgrade">>}

\* resp.stripPerHopHeaders(): drop the hop-by-hop headers and the headers a
\* Connection header of the message names
StripPerHopHeaders(hs) ==
  LET named == {<<hs[k].value>> :
                  k \in {j \in 1..Len(hs) : hs[j].name = <<"connection">>}}
      keep(h) == h.name \notin (PerHopNames \cup named)
  IN  SelectSeq(hs, keep)

\* getSingleOrEmpty(name): the value of the header if the message has exactly
\* one header of that name, the empty string otherwise
GetSingleOrEmpty(hs, n) ==
  LET is(h) == h.name = n
      vals == SelectSeq(hs, is)
  IN  IF Len(vals) = 1 THEN vals[1].value ELSE ""

SendFooterAlways(msg) == TRUE

\* sendFooter_ = (msg->getHTTPVersion() == kHTTPVersion09)
SendFooter(msg) == msg.version = kHTTPVersion09

\* EchoHandler::onHeadersComplete: status 200, the mirrored headers,
\* stripPerHopHeaders, sendHeaders
EchoHandlerOnHeadersComplete(log, msg) ==
  Append(log, EHead(200, StripPerHopHeaders(MirrorHeaders(msg.headers))))

\* ContinueHandler::onHeadersComplete: a 100 head if Expect is
\* "100-continue", then EchoHandler::onHeadersComplete
ContinueHandlerOnHeadersComplete(log, msg) ==
  EchoHandlerOnHeadersComplete(
    IF GetSingleOrEmpty(msg.headers, <<"expect">>) = "100-continue"
    THEN Append(log, EHead(100, <<>>))
    ELSE log,
    msg)

EchoAborted == ECount(etxn, "abort") > 0

\* the transport invokes the next callback of an attached handler whose
\* transaction was not aborted
EchoCanDeliver == estage = "headers" /\ ~EchoAborted

EchoOnHeadersComplete ==
  /\ estage = "new"
  /\ estage' = "headers"
  /\ sendFooter_' = SendFooter(ereq)
  /\ etxn' = IF ekind = "continue"
             THEN ContinueHandlerOnHeadersComplete(etxn, ereq)
             ELSE EchoHandlerOnHeadersComplete(etxn, ereq)
  /\ UNCHANGED <<ekind, ereq, ein, eingressEOM>>
  /\ UNCHANGED <<rvars, wvars>>

EchoOnBodyIgnored(chain) ==
  /\ EchoCanDeliver
  /\ ~eingressEOM
  /\ Len(ein) < MaxEchoBody
  /\ ein' = Append(ein, chain)
  /\ UNCHANGED <<ekind, ereq, estage, sendFooter_, eingressEOM, etxn>>
  /\ UNCHANGED <<rvars, wvars>>

\* onBody: txn_->sendBody(std::move(chain))
EchoOnBody(chain) ==
  /\ EchoCanDeliver
  /\ ~eingressEOM
  /\ Len(ein) < MaxEchoBody
  /\ ein' = Append(ein, chain)
  /\ etxn' = Append(etxn, EBody(chain))
  /\ UNCHANGED <<ekind, ereq, estage, sendFooter_, eingressEOM>>
  /\ UNCHANGED <<rvars, wvars>>

\* onEOM: the footer as a body chunk if sendFooter_, then sendEOM
EchoOnEOM ==
  /\ EchoCanDeliver
  /\ ~eingressEOM
  /\ eingressEOM' = TRUE
  /\ etxn' = (IF sendFooter_ THEN Append(etxn, EBody(H1QFooter)) ELSE etxn)
               \o <<EEom>>
  /\ UNCHANGED <<ekind, ereq, estage, sendFooter_, ein>>
  /\ UNCHANGED <<rvars, wvars>>

\* onError: txn_->sendAbort()
EchoOnError ==
  /\ EchoCanDeliver
  /\ etxn' = Append(etxn, EAbort)
  /\ UNCHANGED <<ekind, ereq, estage, sendFooter_, ein, eingressEOM>>
  /\ UNCHANGED <<rvars, wvars>>

\* detachTransaction(): delete this, once the transaction is aborted or both
\* directions are complete
EchoDetachTransaction ==
  /\ estage = "headers"
  /\ EchoAborted \/ (eingressEOM /\ ECount(etxn, "EOM") > 0)
  /\ estage' = "deleted"
  /\ UNCHANGED <<ekind, ereq, sendFooter_, ein, eingressEOM, etxn>>
  /\ UNCHANGED <<rvars, wvars>>

\* an EchoHandler or ContinueHandler after construction, and its request
EchoInit ==
  /\ ekind \in {"echo", "continue"}
  /\ ereq \in [version : Versions, headers : HeaderLists(MaxHeaders)]
  /\ estage = "new"
  /\ sendFooter_ = FALSE
  /\ ein = <<>>
  /\ eingressEOM = FALSE
  /\ etxn = <<>>

\* no echo request in this run
EchoNone ==
  /\ ekind = "echo"
  /\ ereq = [version |-> <<1, 1>>, headers |-> <<>>]
  /\ estage = "deleted"
  /\ sendFooter_ = FALSE
  /\ ein = <<>>
  /\ eingressEOM = FALSE
  /\ etxn = <<>>

EchoNext ==
  \/ EchoOnHeadersComplete
  \/ \E chain \in BodyChunks : EchoOnBody(chain)
  \/ EchoOnEOM
  \/ EchoOnError
  \/ EchoDetachTransaction

Init == RandInit /\ WaitNone /\ EchoNone

Next ==
  \/ OnHeadersComplete
  \/ LoopIter
  \/ LoopExit
  \/ OnBody
  \/ OnEOM
  \/ OnError
  \/ OnEgressPaused
  \/ OnEgressResumed
  \/ DetachTransaction

Spec == Init /\ [][Next]_vars

\* a GET request
GetInit == Init /\ method = "GET"

\* GET requests.  The event-base thread keeps running a callback it has
\* entered; a paused egress is eventually resumed by the transport.
FairSpec ==
  /\ GetInit
  /\ [][Next]_vars
  /\ WF_vars(LoopIter)
  /\ WF_vars(LoopExit)
  /\ WF_vars(OnEgressResumed /\ handlerEgressPaused)

\* onBody delivered between sendAbort and detachTransaction: the handler
\* keeps no record of the abort and enters sendBodyInChunks as usual
LateOnBody ==
  /\ stage = "headers"
  /\ pc = "idle"
  /\ Aborted
  /\ ~ingressEOM
  /\ nBody < MaxBody
  /\ nBody' = nBody + 1
  /\ EnterSendBodyInChunks(respBodyLen_)
  /\ UNCHANGED <<path, method, stage, respBodyLen_, paused_, eomSent_,
                 ingressEOM, handlerEgressPaused, txn>>
  /\ UNCHANGED wvars
  /\ UNCHANGED evars

\* onEgressResumed delivered between sendAbort and detachTransaction
LateOnEgressResumed ==
  /\ stage = "headers"
  /\ pc = "idle"
  /\ Aborted
  /\ paused_' = FALSE
  /\ handlerEgressPaused' = FALSE
  /\ EnterSendBodyInChunks(respBodyLen_)
  /\ UNCHANGED <<path, method, stage, respBodyLen_, eomSent_, nBody,
                 ingressEOM, txn>>
  /\ UNCHANGED wvars
  /\ UNCHANGED evars

LateNext ==
  \/ Next
  \/ LateOnBody
  \/ LateOnEgressResumed

\* the transport may still deliver onBody and onEgressResumed to a handler
\* that has aborted its transaction, until it detaches it
LateSpec == Init /\ [][LateNext]_vars

WaitSpecInit == RandNone /\ WaitInit /\ EchoNone

WaitSpec == WaitSpecInit /\ [][WaitNext]_vars

EchoSpecInit == RandNone /\ WaitNone /\ EchoInit

EchoSpec == EchoSpecInit /\ [][EchoNext]_vars

(***************************************************************************)
(* Properties of RandBytesGenHandler                                       *)
(***************************************************************************)
\* the request's path parses as a length
ParsedOk == ToUInt64(Substr1(path)).ok

\* the length L the request asks for
ReqLen == ToUInt64(Substr1(path)).val

\* the request was answered 200
Accepted == txn.status = 200

\* C1: for an accepted request of length L, the sizes of the body chunks sent
\* so far plus respBodyLen_ is L in every state; respBodyLen_ stays within
\* 0..L (no wrap below 0) and no step increases it.
C1_Conservation ==
  /\ [](Accepted => /\ respBodyLen_ \in 0..ReqLen
                    /\ txn.genBytes + respBodyLen_ = ReqLen)
  /\ [][Accepted => respBodyLen_' <= respBodyLen_]_vars

\* C1 witness: mid-stream, paused after at least two chunks, a peer body chunk
\* already delivered, with bytes still to send
C1_Witness ==
  /\ Accepted
  /\ paused_
  /\ nBody > 0
  /\ txn.genChunks >= 2
  /\ respBodyLen_ > 0

\* C2: while the transport's last notification is a pause, no step sends a
\* body chunk or an end-of-message.
C2_Backpressure ==
  [][handlerEgressPaused =>
       /\ txn'.genChunks = txn.genChunks
       /\ txn'.genBytes = txn.genBytes
       /\ txn'.errBody = txn.errBody
       /\ txn'.eom = txn.eom]_vars

\* C2 witness: the pause arrived mid-stream and a peer body chunk has then
\* re-invoked sendBodyInChunks, which stands at its loop head with bytes left
C2_Witness ==
  /\ handlerEgressPaused
  /\ pc = "loop"
  /\ i = 0
  /\ iter > 0
  /\ nBody > 0
  /\ txn.genChunks > 0
  /\ respBodyLen_ > 0

\* C3: end-of-message is sent at most once, eomSent_ is true exactly when it
\* has been sent, and the step that sends it has respBodyLen_ = 0 and
\* paused_ = FALSE.
C3_EomOnce ==
  /\ [](txn.eom <= 1 /\ (eomSent_ <=> txn.eom = 1))
  /\ [][txn'.eom # txn.eom =>
          /\ respBodyLen_ = 0 /\ respBodyLen_' = 0
          /\ ~paused_ /\ ~paused_']_vars

\* C3 witness: sendBodyInChunks runs again, unpaused, after end-of-message
C3_Witness ==
  /\ eomSent_
  /\ txn.eom = 1
  /\ pc = "loop"
  /\ ~paused_
  /\ nBody > 0

\* C4: every body chunk is non-empty and starts where the previous one ended
\* (offset L - respBodyLen_), inside 0..L; none is sent after end-of-message;
\* end-of-message is sent only once the chunks add up to L.
C4_Ordering ==
  /\ [](Accepted /\ txn.eom > 0 => txn.genBytes = ReqLen)
  /\ [][txn'.genChunks # txn.genChunks =>
          /\ txn.eom = 0
          /\ txn'.genChunks = txn.genChunks + 1
          /\ txn'.genBytes > txn.genBytes
          /\ Accepted => /\ txn.genBytes = ReqLen - respBodyLen_
                         /\ txn'.genBytes <= ReqLen]_vars

\* C4 witness: a resume after end-of-message of a response of several chunks
C4_Witness ==
  /\ Accepted
  /\ txn.eom = 1
  /\ txn.genChunks >= 3
  /\ pc = "loop"
  /\ ~handlerEgressPaused
  /\ nBody = 0

\* C5: a GET for 1 <= L <= kMaxAllowedLength leads, unless the transport
\* reports an error, to exactly L characters and one end-of-message sent.
C5_Completion ==
  (/\ stage = "headers"
   /\ method = "GET"
   /\ ParsedOk
   /\ 1 <= ReqLen /\ ReqLen <= kMaxAllowedLength)
  ~> (Aborted \/ (txn.genBytes = ReqLen /\ txn.eom = 1 /\ respBodyLen_ = 0))

\* C5 witness: the largest allowed response is complete after a pause
C5_Witness ==
  /\ method = "GET"
  /\ ReqLen = kMaxAllowedLength
  /\ txn.genBytes = ReqLen
  /\ txn.eom = 1
  /\ stage = "deleted"

\* C6: a request for more than kMaxAllowedLength is answered 400 and no
\* generated chunk is sent for it, at headers-complete or in a later callback.
C6_OversizeNoChunk ==
  (stage # "new" /\ ParsedOk /\ ReqLen > kMaxAllowedLength)
    => (txn.status = 400 /\ txn.genChunks = 0)

\* C7 as stated: 200 exactly for 1 <= L <= kMaxAllowedLength, else 400 with a
\* descriptive body.
C7_AsStated ==
  stage # "new" =>
    IF ParsedOk /\ 1 <= ReqLen /\ ReqLen <= kMaxAllowedLength
    THEN txn.status = 200 /\ txn.errBody = "none"
    ELSE txn.status = 400 /\ txn.errBody # "none"

\* C7 amended: 200 exactly for a parsed 0 <= L <= kMaxAllowedLength; an
\* unparsable length is answered 400 with the invalid-URL message, a larger
\* one 400 with kErrorMsg.
C7_LengthBound ==
  stage # "new" =>
    IF ParsedOk /\ 0 <= ReqLen /\ ReqLen <= kMaxAllowedLength
    THEN txn.status = 200 /\ txn.errBody = "none"
    ELSE /\ txn.status = 400
         /\ txn.errBody = (IF ParsedOk THEN "kErrorMsg" ELSE "InvalidURL")

\* C7 witness: the largest allowed length was answered 200
C7_Witness ==
  /\ stage = "headers"
  /\ ReqLen = kMaxAllowedLength
  /\ txn.status = 200

(***************************************************************************)
(* Properties of WaitReleaseHandler and the registry                       *)
(***************************************************************************)
\* handler h answered 200 and awaits release: no end-of-message, no abort
Suspended(h) ==
  /\ wstage[h] = "live"
  /\ Count(wtxn[h], "headers200chunked") = 1
  /\ ~WaitEomSent(h)
  /\ ~WaitAborted(h)

\* the log holds "released" and end-of-message once each, in this order
ReleasedOnce(log) ==
  /\ Count(log, "released") = 1
  /\ Count(log, "EOM") = 1
  /\ \E k \in 1..(Len(log) - 1) :
       log[k].cmd = "released" /\ log[k + 1].cmd = "EOM"

\* C8: whatever release(id) calls are made, a transaction gets the
\* terminating chunk and end-of-message at most once, the chunk first, and
\* every command is given on the event base that owns it.
C8_ExactlyOnce ==
  \A h \in Handlers :
    /\ Count(wtxn[h], "released") <= 1
    /\ Count(wtxn[h], "EOM") <= 1
    /\ Count(wtxn[h], "released") = 1 /\ Count(wtxn[h], "EOM") = 1
         => ReleasedOnce(wtxn[h])
    /\ \A k \in 1..Len(wtxn[h]) : wtxn[h][k].by = "evb"

\* the parts of the state a release(id) that finds nothing must leave alone
MissFrame == <<waitingHandlers, wtxn, wstage, id_, wingress, uaf>>

\* C9: a release(id) call that finds no entry for id returns without changing
\* the registry, any handler or any transaction, and without sending.
C9_LookupMiss ==
  [][\A t \in Threads :
       /\ rpc'[t] # rpc[t]
       /\ \/ rpc[t] \in {"idle", "lock"}
          \/ rpc[t] = "locked" /\ waitingHandlers[rid[t]] = NoHandler
       => /\ MissFrame' = MissFrame
          /\ rpc[t] = "locked" => rpc'[t] = "idle" /\ mutex' = NoThread]_vars

\* C9 witness: both release(id) calls have returned, one completed a handler
\* and the other found nothing, while another handler is still registered
C9_Witness ==
  /\ nReleases = 2
  /\ \A t \in Threads : rpc[t] = "idle"
  /\ ~uaf
  /\ \E h \in Handlers, g \in Handlers :
       /\ h # g
       /\ ReleasedOnce(wtxn[h])
       /\ Suspended(g)
       /\ waitingHandlers[id_[g]] = g
       /\ waitingHandlers[id_[h]] = NoHandler

\* a release(id) call that found h has not returned yet
InRelease(h) ==
  \E t \in Threads : rh[t] = h /\ rpc[t] \in {"handoff", "relock", "erase"}

\* C10: the registry holds an entry for id exactly when a live handler with
\* that id is suspended awaiting release (or is being released by a call that
\* has not returned); no entry names a deleted handler.
C10_RegistryInv ==
  /\ \A id \in Ids :
       waitingHandlers[id] # NoHandler =>
         /\ wstage[waitingHandlers[id]] # "deleted"
         /\ id_[waitingHandlers[id]] = id
         /\ Suspended(waitingHandlers[id]) \/ InRelease(waitingHandlers[id])
  /\ \A h \in Handlers :
       Suspended(h) => waitingHandlers[id_[h]] = h

\* a thread inside release(id) can take its next step
ReleaseCanStep(t) ==
  \/ ENABLED ReleaseLock(t)
  \/ ENABLED ReleaseLookup(t)
  \/ ENABLED ReleaseRun(t)
  \/ ENABLED ReleaseRelock(t)
  \/ ENABLED ReleaseErase(t)

CeilChunks(n) == (n + kMaxChunkSize - 1) \div kMaxChunkSize

\* C16: every body chunk handed to the transport has the size
\* min(kMaxChunkSize, bytes remaining when it is sent), so it is non-empty and
\* at most 102400 bytes; every chunk but the final one is exactly 102400
\* bytes; the number of chunks is ceil(bytes sent / 102400), and
\* ceil(L / 102400) once the stream of an accepted request has ended, however
\* pauses, resumes and onBody callbacks split the sending.
C16_ChunkSizing ==
  /\ [](txn.genChunks > 0 => txn.lastChunk \in 1..kMaxChunkSize)
  /\ [](/\ txn.shortChunks <= 1
        /\ txn.shortChunks = 1 => respBodyLen_ = 0 /\ txn.lastChunk < kMaxChunkSize)
  /\ [](Accepted => /\ txn.genChunks = CeilChunks(txn.genBytes)
                    /\ txn.eom > 0 => txn.genChunks = CeilChunks(ReqLen))
  /\ [][txn'.genChunks # txn.genChunks
          => /\ txn'.genChunks = txn.genChunks + 1
             /\ txn'.lastChunk = Min(kMaxChunkSize, respBodyLen_)
             /\ txn'.genBytes = txn.genBytes + txn'.lastChunk]_vars

\* C16 witness: 250000 bytes went out as 102400 + 102400 + 45200 and the
\* stream has ended, with a peer body chunk delivered on the way
C16_Witness ==
  /\ Accepted
  /\ ReqLen = 250000
  /\ txn.eom = 1
  /\ txn.genChunks = 3
  /\ txn.lastChunk = 45200
  /\ nBody > 0

\* C17: the step that registers a handler sends the 200 chunked head and the
\* body "waiting" and no end-of-message; afterwards an end-of-message is
\* given to its transaction only by the completion of a release(id) call made
\* for its id, whatever onBody and onEOM callbacks arrive.
C17_Suspension ==
  /\ [][\A h \in Handlers :
          wstage[h] = "new" /\ wstage'[h] = "live"
            => /\ wtxn'[h] = <<Cmd("headers200chunked", "evb"),
                               Cmd("waiting", "evb")>>
               /\ waitingHandlers'[id_'[h]] = h]_vars
  /\ [][\A h \in Handlers :
          Count(wtxn'[h], "EOM") > Count(wtxn[h], "EOM")
            => \E t \in Threads :
                 rpc[t] = "handoff" /\ rh[t] = h /\ rid[t] = id_[h]]_vars
  /\ [](\A h \in Handlers :
          WaitEomSent(h) => Count(wtxn[h], "released") > 0)

\* C17 witness: a handler whose request has ended is still suspended while
\* the other one has been released
C17_Witness ==
  \E h \in Handlers, g \in Handlers :
    /\ h # g
    /\ Suspended(h)
    /\ wingress[h] = "eom"
    /\ waitingHandlers[id_[h]] = h
    /\ WaitEomSent(g)

\* C18: a registered request ends in exactly one of RELEASED and ERRORED: no
\* transaction is given both the completion of a release ("released",
\* end-of-message) and an abort.
C18_OneTerminal ==
  \A h \in Handlers :
    ~(Count(wtxn[h], "released") > 0 /\ WaitAborted(h))

\* C19: the completion of a release never runs on a handler that
\* detachTransaction has destroyed.
C19_NoUseAfterDestruction == ~uaf

\* C20: a transport error makes the handler abort exactly once, and after the
\* abort it gives the transaction no further body chunk and no
\* end-of-message, also when onBody or onEgressResumed is delivered afterwards
\* with bytes still to send.
C20_ErrorTerminal ==
  /\ [](txn.abort <= 1)
  /\ [][Aborted => /\ txn'.genChunks = txn.genChunks
                   /\ txn'.eom = txn.eom
                   /\ txn'.abort = txn.abort]_vars

(***************************************************************************)
(* Properties of EchoHandler and ContinueHandler                           *)
(***************************************************************************)
\* the positions of the response heads with the given status
HeadsAt(status) ==
  {k \in 1..Len(etxn) : etxn[k].cmd = "headers" /\ etxn[k].status = status}

\* C12: once the headers are complete there is one 200 response head, and its
\* headers are ("x-echo-" + k, v) for every request header (k, v), in the
\* request's order: one per request header, none added, none dropped.
C12_HeaderMirroring ==
  estage # "new" =>
    /\ Cardinality(HeadsAt(200)) = 1
    /\ \A p \in HeadsAt(200) :
         /\ Len(etxn[p].headers) = Len(ereq.headers)
         /\ \A j \in 1..Len(ereq.headers) :
              /\ etxn[p].headers[j].name = <<"x-echo-">> \o ereq.headers[j].name
              /\ etxn[p].headers[j].value = ereq.headers[j].value

\* C12 witness: an EchoHandler answered a request that carries a Connection
\* header naming another header of the request
C12_Witness ==
  /\ ekind = "echo"
  /\ estage = "headers"
  /\ ereq.headers = <<Header(<<"connection">>, "host"),
                      Header(<<"host">>, "host")>>
  /\ HeadsAt(200) # {}

\* the data of the body chunks of the log, without the footer
SentChunks ==
  LET isChunk(c) == c.cmd = "body" /\ c.data # H1QFooter
      chunks == SelectSeq(etxn, isChunk)
  IN  [k \in 1..Len(chunks) |-> chunks[k].data]

\* C13: every onBody makes exactly one sendBody, of the chunk it received,
\* and the chunks sent before any footer or end-of-message are the chunks
\* received, in order.
C13_BodyForwarding ==
  /\ [](SentChunks = ein)
  /\ [][ein' # ein => etxn' = Append(etxn, EBody(ein'[Len(ein')]))]_vars
  /\ [](\A k \in 1..Len(etxn) :
          etxn[k].cmd = "body" /\ etxn[k].data # H1QFooter
            => \A j \in 1..k : etxn[j].cmd # "EOM" /\ etxn[j].data # H1QFooter)

\* C13 witness: two different chunks were echoed, then the footer and the
\* end-of-message
C13_Witness ==
  /\ ekind = "echo"
  /\ ein = <<"a", "b">>
  /\ sendFooter_
  /\ ECount(etxn, "EOM") = 1

\* C14: the step that delivers the request's end-of-message sends
\* end-of-message once, preceded by the footer as one body chunk exactly when
\* the request's version was HTTP/0.9, and by nothing otherwise; no other step
\* sends an end-of-message or the footer.
C14_EndOfMessage ==
  /\ [](ECount(etxn, "EOM") = (IF eingressEOM THEN 1 ELSE 0))
  /\ [][~eingressEOM /\ eingressEOM'
          => etxn' = etxn \o (IF ereq.version = <<0, 9>>
                              THEN <<EBody(H1QFooter)>>
                              ELSE <<>>) \o <<EEom>>]_vars
  /\ [](Cardinality({k \in 1..Len(etxn) : etxn[k] = EBody(H1QFooter)})
          = (IF eingressEOM /\ ereq.version = <<0, 9>> THEN 1 ELSE 0))

\* C14 witness: an HTTP/0.9 request with a body has ended
C14_Witness ==
  /\ ekind = "echo"
  /\ ereq.version = <<0, 9>>
  /\ Len(ein) > 0
  /\ eingressEOM
  /\ etxn[Len(etxn)] = EEom
  /\ etxn[Len(etxn) - 1] = EBody(H1QFooter)

\* the Expect headers of the request
ExpectAt == {j \in 1..Len(ereq.headers) : ereq.headers[j].name = <<"expect">>}

\* what an EchoHandler has sent for the same request and callbacks
EchoLog ==
  <<EHead(200, [j \in 1..Len(ereq.headers) |->
                  Header(<<"x-echo-">> \o ereq.headers[j].name,
                         ereq.headers[j].value)])>>
    \o [k \in 1..Len(ein) |-> EBody(ein[k])]
    \o (IF eingressEOM
        THEN (IF ereq.version = <<0, 9>> THEN <<EBody(H1QFooter)>> ELSE <<>>)
               \o <<EEom>>
        ELSE <<>>)
    \o (IF EchoAborted THEN <<EAbort>> ELSE <<>>)

\* what a ContinueHandler has sent: a 100 head first if the request has a
\* single Expect header with the value 100-continue, then what an EchoHandler
\* sends
ContinueLog ==
  LET single == /\ Cardinality(ExpectAt) = 1
                /\ \A j \in ExpectAt : ereq.headers[j].value = "100-continue"
  IN  (IF single THEN <<EHead(100, <<>>)>> ELSE <<>>) \o EchoLog

\* C15: a ContinueHandler sends one 100 head, before the 200 head, exactly
\* when the request carries an Expect header with the value 100-continue; in
\* both cases what follows is what an EchoHandler sends: one 200 head with
\* the mirrored headers, the body chunks and the end of the message.
C15_Continue ==
  ekind = "continue" /\ estage # "new" =>
    /\ HeadsAt(100) # {}
         <=> \E j \in ExpectAt : ereq.headers[j].value = "100-continue"
    /\ HeadsAt(100) \subseteq {1}
    /\ etxn = (IF HeadsAt(100) # {} THEN <<EHead(100, <<>>)>> ELSE <<>>)
                \o EchoLog

\* what a ContinueHandler does send, whatever the Expect headers
ContinueLogInv == ekind = "continue" /\ estage # "new" => etxn = ContinueLog

====
